---- MODULE Spec2Model ----
(***************************************************************************)
(* Model of the in-memory link tracker (tracker.py, class LinkTracker) as  *)
(* it is driven by a multithreaded HTTP server: every worker thread runs   *)
(* one LinkTracker method at a time, and the threads interleave between    *)
(* the statements (and between the load and the store of an augmented      *)
(* assignment) of these methods.                                           *)
(*                                                                         *)
(* The store is the pair of class-level dicts _tokens and _clicks.  Their  *)
(* values are Python objects (a dict per token, a list per token) that     *)
(* live on after clear() has removed them from the dicts, so the model     *)
(* keeps the objects in two heaps, dicts and lists, and the two class      *)
(* dicts map a token to an object id (an index into the heap).             *)
(***************************************************************************)
EXTENDS Integers, Sequences, FiniteSets, TLC

VARIABLES
    _tokens,    \* LinkTracker._tokens: token -> id of its metadata dict
    _clicks,    \* LinkTracker._clicks: token -> id of its click list
    dicts,      \* heap of metadata dicts (Token Records), by id
    lists,      \* heap of click lists, by id
    now,        \* the system clock, in ticks
    pc,         \* per worker: the statement it executes next ("idle": none)
    frame,      \* per worker: arguments and locals of its current/last call
    last,       \* the call that returned most recently, and what it returned
    issued,     \* token strings the random source has produced so far
    nsucc,      \* history: per token, track_click calls that returned success
    wiped,      \* history: tokens removed by a completed clear_all
    prev,       \* history: the click that get_click_stats directly follows
    http,       \* per worker: the request its route handler (main.py) serves
    resp,       \* the HTTP response sent most recently
    sheets,     \* the rows of the Tokens and the Clicks sheet (sheets_api.py)
    logged      \* history: the calls of log_token_creation and log_click

vars == <<_tokens, _clicks, dicts, lists, now, pc, frame, last, issued,
          nsucc, wiped, prev, http, resp, sheets, logged>>

store == <<_tokens, _clicks, dicts, lists>>

\* what the route handlers leave behind
web == <<resp, sheets, logged>>

(***************************************************************************)
(* Bounds of the model and the inputs the callers draw from.               *)
(***************************************************************************)
MaxGen == 1
MaxClicks == 2
TicksPerDay == 2
\* the larger click budgets of the statistics and the two-clicker scenarios
MaxStatsClicks == 3
MaxRaceClicks == 3
\* the click budget of the scenario with the HTTP routes
MaxHttpClicks == 1

Workers == {"w1", "w2"}
Tokens == {"t1", "t2"}
URLs == {"https://example.com/x"}

\* timedelta(days=90)
TOKEN_EXPIRY_DAYS == 90
\* click['user_agent'][:50]
UA_PREFIX == 50

\* Two user agents that differ only after the 50th character, and a short one.
LongUA(c) == [i \in 1..(UA_PREFIX + 1) |-> IF i <= UA_PREFIX THEN "x" ELSE c]
\* The HTTP clients: (request.remote_addr, User-Agent header)
Clients == {[ip_address |-> "1.1.1.1", user_agent |-> LongUA("a")],
            [ip_address |-> "2.2.2.2", user_agent |-> <<"M">>]}

None == [kind |-> "None"]
EmptyDict == [k \in {} |-> 0]

(***************************************************************************)
(* Pure helpers.                                                           *)
(***************************************************************************)
\* datetime.isoformat(): "<date>T<time of day>"; the model keeps the two parts
isoformat(t) == [date |-> t \div TicksPerDay, time |-> t % TicksPerDay]

\* datetime.fromisoformat()
fromisoformat(s) == s.date * TicksPerDay + s.time

\* datetime.utcnow() + timedelta(days=90)
plus_ttl(t) == t + TOKEN_EXPIRY_DAYS * TicksPerDay

\* LinkTracker._generate_click_hash: sha256 of "token:ip", kept symbolic
_generate_click_hash(token, ip_address) == <<"sha256", token, ":", ip_address>>

\* s[:n]
Slice(s, n) == SubSeq(s, 1, IF Len(s) < n THEN Len(s) ELSE n)

\* d.get(k, 0)
Get0(d, k) == IF k \in DOMAIN d THEN d[k] ELSE 0

\* for k in keys: d[k] = d.get(k, 0) + 1
RECURSIVE count_keys(_)
count_keys(keys) ==
    IF keys = <<>> THEN EmptyDict
    ELSE LET d == count_keys(SubSeq(keys, 1, Len(keys) - 1))
             k == keys[Len(keys)]
         IN  (k :> (Get0(d, k) + 1)) @@ d

\* token not in self._tokens, as track_click asks it
invalid_token_never(token) == FALSE
invalid_token(token) == token \notin DOMAIN _tokens

\* dict.clear()
cleared_not(d) == d
cleared(d) == EmptyDict

\* total_clicks = len(clicks)
total_clicks_plus_one(clicks) == Len(clicks) + 1
total_clicks(clicks) == Len(clicks)

\* unique_ips = len(set(click['ip_address'] for click in clicks))
unique_ips_runs(clicks) ==
    Cardinality({i \in DOMAIN clicks :
                    i = 1 \/ clicks[i].ip_address # clicks[i - 1].ip_address})
unique_ips(clicks) == Cardinality({clicks[i].ip_address : i \in DOMAIN clicks})

\* clicks_by_date: date = click['timestamp'].split('T')[0]
clicks_by_date(clicks) ==
    count_keys([i \in DOMAIN clicks |-> clicks[i].timestamp.date])

\* clicks_by_user_agent: ua = click['user_agent'][:50]
clicks_by_user_agent(clicks) ==
    count_keys([i \in DOMAIN clicks |-> Slice(clicks[i].user_agent, UA_PREFIX)])

\* clicks[0]['timestamp'] if clicks else None
first_click(clicks) == IF clicks # <<>> THEN clicks[1].timestamp ELSE None

\* clicks[-1]['timestamp'] if clicks else None
last_click_first(clicks) == IF clicks # <<>> THEN clicks[1].timestamp ELSE None
last_click(clicks) == IF clicks # <<>> THEN clicks[Len(clicks)].timestamp ELSE None

\* list.append
list_prepend(l, x) == <<x>> \o l
list_append_unless_duplicate(l, x) ==
    IF \E i \in DOMAIN l : l[i].click_hash = x.click_hash THEN l ELSE Append(l, x)
list_append(l, x) == Append(l, x)

\* token_data['click_count'] + 1
incremented(n) == n + 1

\* datetime.utcnow() > datetime.fromisoformat(token_data['expires_at'])
expired_never(t, expires_at) == FALSE
expired_at_boundary(t, expires_at) == t >= fromisoformat(expires_at)
expired(t, expires_at) == t > fromisoformat(expires_at)

\* secrets.token_urlsafe: a string no earlier call has produced
token_urlsafe_repeating == Tokens
token_urlsafe == Tokens \ issued

(***************************************************************************)
(* Results.                                                                *)
(***************************************************************************)
InvalidToken == [kind |-> "outcome", success |-> FALSE, error |-> "Invalid token"]
TokenExpired == [kind |-> "outcome", success |-> FALSE, error |-> "Token expired"]
\* except Exception as e: return {'success': False, 'error': str(e)}
CaughtKeyError(token) ==
    [kind |-> "outcome", success |-> FALSE, error |-> "'" \o token \o "'"]
\* an exception that leaves the method
Raised(what) == [kind |-> "raise", error |-> what]
Pending == [kind |-> "pending"]
NoPrev == [kind |-> "none"]

(***************************************************************************)
(* Bookkeeping shared by the steps of the workers.                         *)
(***************************************************************************)
\* the contents of the click list a reference points to (0: a fresh [])
deref(ref) == IF ref = 0 THEN <<>> ELSE lists[ref]

Idle == [op |-> "none"]

\* the number of click records in the heap
RECURSIVE SumLen(_)
SumLen(ls) == IF ls = <<>> THEN 0 ELSE Len(ls[1]) + SumLen(Tail(ls))
Recorded == SumLen(lists)

\* the number of track_click calls that may still append a record
Appending ==
    Cardinality({w \in Workers : pc[w] \in {"tc77", "tc80", "tc86", "tc93", "tc93a"}})

\* what is remembered of a call once it has returned
Returned(f, r) ==
    [op |-> f.op, token |-> IF f.op = "clear_all" THEN "" ELSE f.token,
     result |-> r]

\* the successful click or the token creation, if any, that the call f
\* directly follows
LastClick(f) ==
    IF /\ f.op = "get_click_stats" /\ last.op = "track_click"
       /\ last.token = f.token /\ last.result.success
       /\ \A v \in Workers : pc[v] = "idle"
    THEN [kind |-> "click", timestamp |-> last.result.timestamp,
          before |-> last.result.before]
    ELSE IF /\ f.op = "get_click_stats" /\ last.op = "generate_token"
            /\ last.token = f.token
            /\ \A v \in Workers : pc[v] = "idle"
    THEN [kind |-> "created"]
    ELSE NoPrev

\* sheets_api.py lines 83-92: the header rows _initialize_sheets writes
TokensHeader ==
    <<"Timestamp", "Token", "Target URL", "Email", "Campaign", "Status">>
ClicksHeader == <<"Timestamp", "Token", "IP Address", "User Agent", "Click Count">>

\* no request: the worker's calls are made directly
NoRequest == [at |-> "none"]

\* the result r goes to the route handler, if one has made the call
Deliver(w, r) ==
    http' = IF http[w].at = "none" THEN http
            ELSE [http EXCEPT ![w] =
                     [http[w] EXCEPT !.at = http[w].then, !.result = r]]

\* a call starts and goes on at statement p
Begin(w, f, p) ==
    /\ pc[w] = "idle"
    /\ pc' = [pc EXCEPT ![w] = p]
    /\ frame' = [frame EXCEPT ![w] = f]
    /\ last' = last
    /\ prev' = LastClick(f)
    /\ UNCHANGED <<http, web>>

\* a call starts and returns in its first statement
BeginReturn(w, f, r) ==
    /\ pc[w] = "idle"
    /\ pc' = pc
    /\ frame' = frame
    /\ last' = Returned(f, r)
    /\ prev' = LastClick(f)
    /\ Deliver(w, r)
    /\ UNCHANGED web

Goto(w, f, p) ==
    /\ pc' = [pc EXCEPT ![w] = p]
    /\ frame' = [frame EXCEPT ![w] = f]
    /\ UNCHANGED <<last, prev, http, web>>

Return(w, r) ==
    /\ pc' = [pc EXCEPT ![w] = "idle"]
    /\ frame' = [frame EXCEPT ![w] = Idle]
    /\ last' = Returned(frame[w], r)
    /\ prev' = prev
    /\ Deliver(w, r)
    /\ UNCHANGED web

Init ==
    /\ _tokens = EmptyDict
    /\ _clicks = EmptyDict
    /\ dicts = <<>>
    /\ lists = <<>>
    /\ now = 0
    /\ pc = [w \in Workers |-> "idle"]
    /\ frame = [w \in Workers |-> Idle]
    /\ last = [op |-> "none", token |-> "", result |-> None]
    /\ issued = {}
    /\ nsucc = [t \in Tokens |-> 0]
    /\ wiped = {}
    /\ prev = NoPrev
    /\ http = [w \in Workers |-> NoRequest]
    /\ resp = [route |-> "none"]
    /\ sheets = [Tokens |-> <<TokensHeader>>, Clicks |-> <<ClicksHeader>>]
    /\ logged = <<>>

(***************************************************************************)
(* The clock.  It never goes back.  The instants the calls can read are    *)
(* the start, the instant one TTL after the start, and the tick after it.  *)
(***************************************************************************)
Instants == {0, TOKEN_EXPIRY_DAYS * TicksPerDay, TOKEN_EXPIRY_DAYS * TicksPerDay + 1}

Tick ==
    /\ \E t \in Instants : t > now /\ now' = t
    /\ UNCHANGED <<store, pc, frame, last, issued, nsucc, wiped, prev, http, web>>

(***************************************************************************)
(* generate_token                                                          *)
(***************************************************************************)
\* lines 37 and 44: token = secrets.token_urlsafe(..); created_at = utcnow()
generate_token_37(w, budget) ==
    /\ Cardinality(issued) < budget
    /\ \E token \in token_urlsafe, target_url \in URLs :
        /\ Begin(w, [op |-> "generate_token", token |-> token,
                     target_url |-> target_url,
                     created_at |-> isoformat(now)], "gt45")
        /\ issued' = issued \cup {token}
    /\ UNCHANGED <<store, now, nsucc, wiped>>

\* line 45: expires_at = (utcnow() + timedelta(days=90)).isoformat()
generate_token_45(w) ==
    /\ pc[w] = "gt45"
    /\ Goto(w, [expires_at |-> isoformat(plus_ttl(now))] @@ frame[w], "gt40")
    /\ UNCHANGED <<store, now, issued, nsucc, wiped>>

\* line 40: self._tokens[token] = {...}
generate_token_40(w) ==
    /\ pc[w] = "gt40"
    /\ dicts' = Append(dicts, [target_url |-> frame[w].target_url,
                               email |-> None,
                               campaign |-> "default",
                               created_at |-> frame[w].created_at,
                               expires_at |-> frame[w].expires_at,
                               click_count |-> 0])
    /\ _tokens' = (frame[w].token :> (Len(dicts) + 1)) @@ _tokens
    /\ wiped' = wiped \ {frame[w].token}
    /\ Goto(w, frame[w], "gt50")
    /\ UNCHANGED <<_clicks, lists, now, issued, nsucc>>

\* lines 50-53: self._clicks[token] = []; return token
generate_token_50(w) ==
    /\ pc[w] = "gt50"
    /\ lists' = Append(lists, <<>>)
    /\ _clicks' = (frame[w].token :> (Len(lists) + 1)) @@ _clicks
    /\ Return(w, [kind |-> "token", token |-> frame[w].token])
    /\ UNCHANGED <<_tokens, dicts, now, issued, nsucc, wiped>>

(***************************************************************************)
(* track_click                                                             *)
(***************************************************************************)
\* lines 73-75: if token not in self._tokens: return Invalid token
track_click_73(w, budget) ==
    /\ Recorded + Appending < budget
    /\ \E token \in Tokens, client \in Clients :
        LET f == [op |-> "track_click", token |-> token,
                  ip_address |-> client.ip_address,
                  user_agent |-> client.user_agent,
                  before |-> IF token \in DOMAIN _clicks
                             THEN total_clicks(lists[_clicks[token]]) ELSE 0]
        IN  IF invalid_token(token)
            THEN BeginReturn(w, f, InvalidToken)
            ELSE Begin(w, f, "tc77")
    /\ UNCHANGED <<store, now, issued, nsucc, wiped>>

\* line 77: token_data = self._tokens[token]
track_click_77(w) ==
    /\ pc[w] = "tc77"
    /\ IF frame[w].token \notin DOMAIN _tokens
       THEN Return(w, CaughtKeyError(frame[w].token))
       ELSE Goto(w, [token_data |-> _tokens[frame[w].token]] @@ frame[w], "tc80")
    /\ UNCHANGED <<store, now, issued, nsucc, wiped>>

\* lines 80-83: if datetime.utcnow() > expires_at: return Token expired
track_click_80_purging(w) ==
    /\ pc[w] = "tc80"
    /\ IF expired(now, dicts[frame[w].token_data].expires_at)
       THEN /\ Return(w, TokenExpired)
            /\ _tokens' = [t \in DOMAIN _tokens \ {frame[w].token} |-> _tokens[t]]
            /\ _clicks' = [t \in DOMAIN _clicks \ {frame[w].token} |-> _clicks[t]]
            /\ UNCHANGED <<dicts, lists>>
       ELSE Goto(w, frame[w], "tc86") /\ UNCHANGED store
    /\ UNCHANGED <<now, issued, nsucc, wiped>>

track_click_80(w) ==
    /\ pc[w] = "tc80"
    /\ IF expired(now, dicts[frame[w].token_data].expires_at)
       THEN Return(w, TokenExpired)
       ELSE Goto(w, frame[w], "tc86")
    /\ UNCHANGED <<store, now, issued, nsucc, wiped>>

\* lines 86-91: click_data = {...}
track_click_86(w) ==
    /\ pc[w] = "tc86"
    /\ Goto(w, [click_data |->
                  [ip_address |-> frame[w].ip_address,
                   user_agent |-> frame[w].user_agent,
                   timestamp |-> isoformat(now),
                   click_hash |-> _generate_click_hash(frame[w].token,
                                                       frame[w].ip_address)]]
               @@ frame[w], "tc93")
    /\ UNCHANGED <<store, now, issued, nsucc, wiped>>

\* line 93, the subscript: self._clicks[token]
track_click_93(w) ==
    /\ pc[w] = "tc93"
    /\ IF frame[w].token \notin DOMAIN _clicks
       THEN Return(w, CaughtKeyError(frame[w].token))
       ELSE Goto(w, [clicks |-> _clicks[frame[w].token]] @@ frame[w], "tc93a")
    /\ UNCHANGED <<store, now, issued, nsucc, wiped>>

\* line 93, the call: .append(click_data)
track_click_93_append(w) ==
    /\ pc[w] = "tc93a"
    /\ lists' = [lists EXCEPT ![frame[w].clicks] =
                    list_append(@, frame[w].click_data)]
    /\ Goto(w, frame[w], "tc94")
    /\ UNCHANGED <<_tokens, _clicks, dicts, now, issued, nsucc, wiped>>

\* line 94, the load of token_data['click_count'] += 1
track_click_94(w) ==
    /\ pc[w] = "tc94"
    /\ Goto(w, [loaded |-> dicts[frame[w].token_data].click_count] @@ frame[w],
            "tc94s")
    /\ UNCHANGED <<store, now, issued, nsucc, wiped>>

\* line 94, the store of token_data['click_count'] += 1
track_click_94_store(w) ==
    /\ pc[w] = "tc94s"
    /\ dicts' = [dicts EXCEPT ![frame[w].token_data].click_count =
                    incremented(frame[w].loaded)]
    /\ Goto(w, frame[w], "tc98")
    /\ UNCHANGED <<_tokens, _clicks, lists, now, issued, nsucc, wiped>>

\* lines 98-103: return {'success': True, ...}
track_click_98(w) ==
    /\ pc[w] = "tc98"
    /\ Return(w, [kind |-> "outcome", success |-> TRUE,
                  target_url |-> dicts[frame[w].token_data].target_url,
                  timestamp |-> frame[w].click_data.timestamp,
                  click_count |-> dicts[frame[w].token_data].click_count,
                  before |-> frame[w].before])
    /\ nsucc' = [nsucc EXCEPT ![frame[w].token] = @ + 1]
    /\ UNCHANGED <<store, now, issued, wiped>>

(***************************************************************************)
(* get_token_info                                                          *)
(***************************************************************************)
\* lines 119-120: if token not in self._tokens: return None
get_token_info_119(w) ==
    /\ \E token \in Tokens :
        LET f == [op |-> "get_token_info", token |-> token]
        IN  IF token \notin DOMAIN _tokens
            THEN BeginReturn(w, f, None)
            ELSE Begin(w, f, "gi123")
    /\ UNCHANGED <<store, now, issued, nsucc, wiped>>

\* line 123: **self._tokens[token]
get_token_info_123(w) ==
    /\ pc[w] = "gi123"
    /\ IF frame[w].token \notin DOMAIN _tokens
       THEN Return(w, Raised("KeyError"))
       ELSE Goto(w, [info |-> dicts[_tokens[frame[w].token]]] @@ frame[w],
                 "gi124")
    /\ UNCHANGED <<store, now, issued, nsucc, wiped>>

\* line 124: 'clicks': self._clicks.get(token, []), and the return
get_token_info_124(w) ==
    /\ pc[w] = "gi124"
    /\ LET ref == IF frame[w].token \in DOMAIN _clicks
                  THEN _clicks[frame[w].token] ELSE 0
       IN  Return(w, [kind |-> "info", info |-> frame[w].info,
                      clicks |-> deref(ref)])
    /\ UNCHANGED <<store, now, issued, nsucc, wiped>>

(***************************************************************************)
(* get_click_stats                                                         *)
(***************************************************************************)
\* lines 137-138: if token not in self._tokens: return None
get_click_stats_137(w) ==
    /\ \E token \in Tokens :
        LET f == [op |-> "get_click_stats", token |-> token, clicks |-> 0]
        IN  IF token \notin DOMAIN _tokens
            THEN BeginReturn(w, f, None)
            ELSE Begin(w, f, "cs140")
    /\ UNCHANGED <<store, now, issued, nsucc, wiped>>

\* line 140: clicks = self._clicks.get(token, [])
get_click_stats_140(w) ==
    /\ pc[w] = "cs140"
    /\ Goto(w, [frame[w] EXCEPT !.clicks =
                    IF frame[w].token \in DOMAIN _clicks
                    THEN _clicks[frame[w].token] ELSE 0], "cs143")
    /\ UNCHANGED <<store, now, issued, nsucc, wiped>>

\* line 143: total_clicks = len(clicks)
get_click_stats_143(w) ==
    /\ pc[w] = "cs143"
    /\ Goto(w, [total_clicks |-> total_clicks(deref(frame[w].clicks))]
               @@ frame[w], "cs144")
    /\ UNCHANGED <<store, now, issued, nsucc, wiped>>

\* line 144: unique_ips = len(set(...))
get_click_stats_144(w) ==
    /\ pc[w] = "cs144"
    /\ Goto(w, [unique_ips |-> unique_ips(deref(frame[w].clicks))]
               @@ frame[w], "cs148")
    /\ UNCHANGED <<store, now, issued, nsucc, wiped>>

\* lines 147-150: the loop that fills clicks_by_date
get_click_stats_148(w) ==
    /\ pc[w] = "cs148"
    /\ Goto(w, [clicks_by_date |-> clicks_by_date(deref(frame[w].clicks))]
               @@ frame[w], "cs154")
    /\ UNCHANGED <<store, now, issued, nsucc, wiped>>

\* lines 153-156: the loop that fills clicks_by_user_agent
get_click_stats_154(w) ==
    /\ pc[w] = "cs154"
    /\ Goto(w, [clicks_by_user_agent |->
                    clicks_by_user_agent(deref(frame[w].clicks))]
               @@ frame[w], "cs158")
    /\ UNCHANGED <<store, now, issued, nsucc, wiped>>

\* lines 158-165: return {...}
get_click_stats_158(w) ==
    /\ pc[w] = "cs158"
    /\ Return(w, [kind |-> "stats",
                  total_clicks |-> frame[w].total_clicks,
                  unique_ips |-> frame[w].unique_ips,
                  clicks_by_date |-> frame[w].clicks_by_date,
                  clicks_by_user_agent |-> frame[w].clicks_by_user_agent,
                  first_click |-> first_click(deref(frame[w].clicks)),
                  last_click |-> last_click(deref(frame[w].clicks)),
                  clicks |-> deref(frame[w].clicks)])
    /\ UNCHANGED <<store, now, issued, nsucc, wiped>>

(***************************************************************************)
(* clear_all                                                               *)
(***************************************************************************)
\* line 224: self._tokens.clear()
clear_all_224(w) ==
    /\ Begin(w, [op |-> "clear_all", removed |-> DOMAIN _tokens], "ca225")
    /\ _tokens' = cleared(_tokens)
    /\ UNCHANGED <<_clicks, dicts, lists, now, issued, nsucc, wiped>>

\* line 225: self._clicks.clear(), and the return
clear_all_225(w) ==
    /\ pc[w] = "ca225"
    /\ _clicks' = cleared(_clicks)
    /\ wiped' = wiped \cup frame[w].removed
    /\ Return(w, None)
    /\ UNCHANGED <<_tokens, dicts, lists, now, issued, nsucc>>

(***************************************************************************)
(* The HTTP layer (main.py): the routes /track/<token> and                 *)
(* /generate-token, which call the tracker and then the Google Sheets      *)
(* logger (sheets_api.py).                                                 *)
(***************************************************************************)
\* user_agent[:100]
UA_LOGGED == 100

\* values().append(...).execute(): it appends the row, or raises HttpError,
\* or raises another exception (a timeout, a transport or refresh error)
LogOutcomes == {"ok", "HttpError", "raise"}

\* a URL that is None or empty: falsy
NoURL == ""

\* result.get(key); absent is what stands for None at this key
Get(d, key, absent) == IF key \in DOMAIN d THEN d[key] ELSE absent

\* if result['success']:
should_log_always(result) == TRUE
should_log(result) == result.success

\* the handler sends its response and the worker is free again
Respond(w, r) ==
    /\ resp' = r
    /\ http' = [http EXCEPT ![w] = NoRequest]

\* the tracker call the handler makes is the call on its own arguments
CalledWith(w, keys) ==
    IF pc'[w] = "idle" THEN last'.token = http[w].token
    ELSE \A k \in keys : frame'[w][k] = http[w][k]

\* main.py lines 48-49: ip_address = request.remote_addr; user_agent = ...
route_track_click_48(w, budget) ==
    /\ pc[w] = "idle" /\ http[w].at = "none"
    /\ Recorded + Appending < budget
    /\ \E token \in Tokens, client \in Clients :
          http' = [http EXCEPT ![w] =
                      [route |-> "track", at |-> "rt52", then |-> "rt54",
                       token |-> token, ip_address |-> client.ip_address,
                       user_agent |-> client.user_agent, result |-> Pending]]
    /\ UNCHANGED <<store, now, pc, frame, last, issued, nsucc, wiped, prev, web>>

\* main.py line 52: result = tracker.track_click(token, ip_address, user_agent)
route_track_click_52(w, budget) ==
    /\ http[w].at = "rt52"
    /\ track_click_73(w, budget)
    /\ CalledWith(w, {"token", "ip_address", "user_agent"})

\* main.py lines 54-56 and 72-74: if result['success']: ... else: 404
route_track_click_54(w) ==
    /\ http[w].at = "rt54" /\ pc[w] = "idle"
    /\ IF should_log(http[w].result)
       THEN /\ http' = [http EXCEPT ![w] =
                          [target_url |-> Get(http[w].result, "target_url", NoURL)]
                          @@ [http[w] EXCEPT !.at = "rt59"]]
            /\ resp' = resp
       ELSE Respond(w, [route |-> "track", token |-> http[w].token,
                        status |-> 404, core |-> http[w].result])
    /\ UNCHANGED <<store, now, pc, frame, last, issued, nsucc, wiped, prev,
                   sheets, logged>>

\* main.py lines 59-65 and 76-78; sheets_api.py lines 187-207: log_click
route_track_click_59(w) ==
    /\ http[w].at = "rt59" /\ pc[w] = "idle"
    /\ \E outcome \in LogOutcomes :
        /\ logged' = Append(logged,
                [fn |-> "log_click", token |-> http[w].token,
                 ip_address |-> http[w].ip_address,
                 user_agent |-> http[w].user_agent,
                 timestamp |-> Get(http[w].result, "timestamp", None),
                 target_url |-> http[w].target_url, outcome |-> outcome])
        /\ sheets' = IF outcome = "ok"
                     THEN [sheets EXCEPT !.Clicks = Append(@,
                              <<Get(http[w].result, "timestamp", None), http[w].token,
                                http[w].ip_address,
                                Slice(http[w].user_agent, UA_LOGGED), 1>>)]
                     ELSE sheets
        /\ IF outcome = "raise"
           THEN Respond(w, [route |-> "track", token |-> http[w].token,
                            status |-> 500, core |-> http[w].result])
           ELSE /\ http' = [http EXCEPT ![w].at = "rt68"]
                /\ resp' = resp
    /\ UNCHANGED <<store, now, pc, frame, last, issued, nsucc, wiped, prev>>

\* main.py lines 68-71: redirect(target_url), or the plain message
route_track_click_68(w) ==
    /\ http[w].at = "rt68" /\ pc[w] = "idle"
    /\ IF http[w].target_url # NoURL
       THEN Respond(w, [route |-> "track", token |-> http[w].token,
                        status |-> 302, location |-> http[w].target_url,
                        core |-> http[w].result])
       ELSE Respond(w, [route |-> "track", token |-> http[w].token,
                        status |-> 200, core |-> http[w].result])
    /\ UNCHANGED <<store, now, pc, frame, last, issued, nsucc, wiped, prev,
                   sheets, logged>>

\* main.py lines 121-127: the request body; 400 without a target_url
route_generate_token_121(w, budget) ==
    /\ pc[w] = "idle" /\ http[w].at = "none"
    /\ Cardinality(issued) < budget
    /\ \E target_url \in URLs \cup {NoURL} :
          IF target_url = NoURL
          THEN Respond(w, [route |-> "generate", status |-> 400, core |-> None])
          ELSE /\ http' = [http EXCEPT ![w] =
                             [route |-> "generate", at |-> "rg130",
                              then |-> "rg133", target_url |-> target_url,
                              result |-> Pending]]
               /\ resp' = resp
    /\ UNCHANGED <<store, now, pc, frame, last, issued, nsucc, wiped, prev,
                   sheets, logged>>

\* main.py line 130: token = tracker.generate_token(target_url, email, campaign)
route_generate_token_130(w, budget) ==
    /\ http[w].at = "rg130"
    /\ generate_token_37(w, budget)
    /\ frame'[w].target_url = http[w].target_url

\* main.py lines 133-138 and 149-151; sheets_api.py lines 152-174:
\* log_token_creation
route_generate_token_133(w) ==
    /\ http[w].at = "rg133" /\ pc[w] = "idle"
    /\ \E outcome \in LogOutcomes :
        /\ logged' = Append(logged,
                [fn |-> "log_token_creation", token |-> http[w].result.token,
                 target_url |-> http[w].target_url, email |-> None,
                 campaign |-> "default", outcome |-> outcome])
        /\ sheets' = IF outcome = "ok"
                     THEN [sheets EXCEPT !.Tokens = Append(@,
                              <<isoformat(now), http[w].result.token,
                                http[w].target_url, "N/A", "default", "Active">>)]
                     ELSE sheets
        /\ IF outcome = "raise"
           THEN Respond(w, [route |-> "generate", status |-> 500,
                            core |-> http[w].result])
           ELSE /\ http' = [http EXCEPT ![w].at = "rg142"]
                /\ resp' = resp
    /\ UNCHANGED <<store, now, pc, frame, last, issued, nsucc, wiped, prev>>

\* main.py lines 140-147: the 201 response with the token
route_generate_token_142(w) ==
    /\ http[w].at = "rg142" /\ pc[w] = "idle"
    /\ Respond(w, [route |-> "generate", status |-> 201,
                   token |-> http[w].result.token,
                   target_url |-> http[w].target_url,
                   campaign |-> "default", core |-> http[w].result])
    /\ UNCHANGED <<store, now, pc, frame, last, issued, nsucc, wiped, prev,
                   sheets, logged>>

\* values().get(...).execute(): it returns the rows, or raises
ReadOutcomes == {"ok", "raise"}

\* sheets_api.py line 230: [row for row in values[1:] if ... row[1] == token]
rows_of(values, token) ==
    SelectSeq(Tail(values), LAMBDA row : Len(row) > 1 /\ row[2] = token)

\* sheets_api.py lines 219-260: SheetsAPI.get_click_stats
sheets_get_click_stats(token, outcome) ==
    LET clicks == rows_of(sheets.Clicks, token)
    IN  IF outcome = "raise" \/ clicks = <<>> THEN None
        ELSE [kind |-> "stats",
              total_clicks |-> Len(clicks),
              unique_ips |-> Cardinality({clicks[i][3] : i \in DOMAIN clicks}),
              clicks_by_date |->
                  count_keys([i \in DOMAIN clicks |-> clicks[i][1].date]),
              clicks_by_user_agent |->
                  count_keys([i \in DOMAIN clicks |-> Slice(clicks[i][4], UA_PREFIX)])]

\* main.py lines 85-100: stats = sheets_api.get_click_stats(token), and the
\* response: the stats, or 404 Token not found
route_get_stats_85(w) ==
    /\ pc[w] = "idle" /\ http[w].at = "none"
    /\ \E token \in Tokens, outcome \in ReadOutcomes :
          LET stats == sheets_get_click_stats(token, outcome)
          IN  IF stats # None
              THEN Respond(w, [route |-> "stats", token |-> token,
                               status |-> 200,
                               total_clicks |-> stats.total_clicks,
                               unique_ips |-> stats.unique_ips,
                               clicks_by_date |-> stats.clicks_by_date,
                               clicks_by_user_agent |-> stats.clicks_by_user_agent])
              ELSE Respond(w, [route |-> "stats", token |-> token,
                               status |-> 404])
    /\ UNCHANGED <<store, now, pc, frame, last, issued, nsucc, wiped, prev,
                   sheets, logged>>

(***************************************************************************)
(* Specifications.  A thread of the server runs any method, and so does    *)
(* every worker of the model in principle; each specification below lets   *)
(* the workers run the methods of one scenario.                            *)
(***************************************************************************)
generate_token(w, budget) ==
    \/ generate_token_37(w, budget)
    \/ generate_token_45(w)
    \/ generate_token_40(w)
    \/ generate_token_50(w)

track_click(w, budget) ==
    \/ track_click_73(w, budget)
    \/ track_click_77(w)
    \/ track_click_80(w)
    \/ track_click_86(w)
    \/ track_click_93(w)
    \/ track_click_93_append(w)
    \/ track_click_94(w)
    \/ track_click_94_store(w)
    \/ track_click_98(w)

get_token_info(w) ==
    \/ get_token_info_119(w)
    \/ get_token_info_123(w)
    \/ get_token_info_124(w)

get_click_stats(w) ==
    \/ get_click_stats_137(w)
    \/ get_click_stats_140(w)
    \/ get_click_stats_143(w)
    \/ get_click_stats_144(w)
    \/ get_click_stats_148(w)
    \/ get_click_stats_154(w)
    \/ get_click_stats_158(w)

clear_all(w) ==
    \/ clear_all_224(w)
    \/ clear_all_225(w)

\* Two threads that change the store: token creation, clicks and resets.
Next ==
    \/ Tick
    \/ \E w \in Workers : generate_token(w, MaxGen)
    \/ \E w \in Workers : track_click(w, MaxClicks)
    \/ \E w \in Workers : clear_all(w)

Spec == Init /\ [][Next]_vars

\* A thread that changes the store and a thread that reads it.
NextRead ==
    \/ Tick
    \/ generate_token("w1", MaxGen)
    \/ track_click("w1", MaxClicks)
    \/ get_token_info("w2")
    \/ get_click_stats("w2")

SpecRead == Init /\ [][NextRead]_vars

\* One thread and the clock: every call returns before the next one starts.
NextSeq ==
    \/ Tick
    \/ generate_token("w1", MaxGen)
    \/ track_click("w1", MaxClicks)
    \/ get_token_info("w1")
    \/ get_click_stats("w1")

SpecSeq == Init /\ [][NextSeq]_vars

\* One thread that clicks and asks for the statistics, while the clock stands.
NextStats ==
    \/ generate_token("w1", MaxGen)
    \/ track_click("w1", MaxStatsClicks)
    \/ get_click_stats("w1")

SpecStats == Init /\ [][NextStats]_vars

\* Two threads that click on the token one of them has created.
NextRace ==
    \/ generate_token("w1", MaxGen)
    \/ \E w \in Workers : track_click(w, MaxRaceClicks)

SpecRace == Init /\ [][NextRace]_vars

\* A thread that creates, clicks and reads, and a thread that resets the store.
NextClear ==
    \/ generate_token("w1", MaxGen)
    \/ track_click("w1", MaxClicks)
    \/ get_click_stats("w1")
    \/ clear_all("w2")

SpecClear == Init /\ [][NextClear]_vars

\* Two threads that create tokens, one of which also clicks; no reset.
NextGen ==
    \/ \E w \in Workers : generate_token(w, Cardinality(Tokens))
    \/ track_click("w1", MaxClicks)

SpecGen == Init /\ [][NextGen]_vars

\* the route /track/<token>, from the request to the response
route_track_click(w, budget) ==
    \/ route_track_click_48(w, budget)
    \/ route_track_click_52(w, budget)
    \/ track_click_77(w)
    \/ track_click_80(w)
    \/ track_click_86(w)
    \/ track_click_93(w)
    \/ track_click_93_append(w)
    \/ track_click_94(w)
    \/ track_click_94_store(w)
    \/ track_click_98(w)
    \/ route_track_click_54(w)
    \/ route_track_click_59(w)
    \/ route_track_click_68(w)

\* the route /generate-token, from the request to the response
route_generate_token(w, budget) ==
    \/ route_generate_token_121(w, budget)
    \/ route_generate_token_130(w, budget)
    \/ generate_token_45(w)
    \/ generate_token_40(w)
    \/ generate_token_50(w)
    \/ route_generate_token_133(w)
    \/ route_generate_token_142(w)

\* One thread that serves the requests of the two routes, and the clock.
NextHttp ==
    \/ Tick
    \/ route_generate_token("w1", MaxGen)
    \/ route_track_click("w1", MaxHttpClicks)

SpecHttp == Init /\ [][NextHttp]_vars

\* One thread that serves the requests of the three routes.
NextHttpStats ==
    \/ route_generate_token("w1", MaxGen)
    \/ route_track_click("w1", MaxClicks)
    \/ route_get_stats_85("w1")

SpecHttpStats == Init /\ [][NextHttpStats]_vars

(***************************************************************************)
(* Vocabulary of the properties.                                           *)
(***************************************************************************)
AllReturned == \A w \in Workers : pc[w] = "idle"

\* the stored Token Record and click list of a known token
Record(t) == dicts[_tokens[t]]
ClickList(t) == lists[_clicks[t]]

\* in this step a call of method op on token t starts
Calls(op, t) ==
    \/ \E w \in Workers : /\ pc[w] = "idle" /\ pc'[w] # "idle"
                          /\ frame'[w].op = op /\ frame'[w].token = t
    \/ /\ pc' = pc /\ last' # last
       /\ last'.op = op /\ last'.token = t

\* in this step the call of method op on token t returns r at once
ReturnsAtOnce(op, t, r) ==
    /\ pc' = pc
    /\ last' = [op |-> op, token |-> t, result |-> r]

\* in this step worker w executes a statement of clear_all
ClearStep ==
    \E w \in Workers : \/ pc[w] = "idle" /\ pc'[w] = "ca225"
                       \/ pc[w] = "ca225" /\ pc'[w] = "idle"

IsPrefix(a, b) == Len(a) <= Len(b) /\ SubSeq(b, 1, Len(a)) = a

\* the sum of the counts of a grouping
RECURSIVE SumCounts(_)
SumCounts(d) ==
    IF DOMAIN d = {} THEN 0
    ELSE LET k == CHOOSE x \in DOMAIN d : TRUE
         IN  d[k] + SumCounts([x \in DOMAIN d \ {k} |-> d[x]])

\* the number of records whose ip_address no earlier record has
DistinctIPs(clicks) ==
    Cardinality({i \in DOMAIN clicks :
                    \A j \in 1..(i - 1) : clicks[j].ip_address # clicks[i].ip_address})

LastIs(op, kind) == last.op = op /\ last.result.kind = kind

(***************************************************************************)
(* C1.  When M callers run track_click concurrently on the same active     *)
(* token and no clear_all runs, then once all the calls have returned the  *)
(* token's click_count equals M and its click list holds exactly M         *)
(* records.  (M is the number of calls that returned success.)             *)
(***************************************************************************)
C1_NoLostUpdate ==
    AllReturned =>
        \A t \in DOMAIN _tokens :
            /\ Record(t).click_count = nsucc[t]
            /\ Len(ClickList(t)) = nsucc[t]

(***************************************************************************)
(* C2.  get_token_info never returns a click_count that differs from the   *)
(* number of click records it returns, also while track_click calls on the *)
(* token are in flight.                                                    *)
(***************************************************************************)
C2_InfoCountMatchesClicks ==
    LastIs("get_token_info", "info") =>
        last.result.info.click_count = Len(last.result.clicks)

(***************************************************************************)
(* C3.  The stats get_click_stats returns are one snapshot of the click    *)
(* list: total_clicks is the sum of the counts of clicks_by_date and of    *)
(* clicks_by_user_agent, and last_click is the timestamp of the record at  *)
(* position total_clicks (absent when there is none).                      *)
(***************************************************************************)
C3_StatsOneSnapshot ==
    LastIs("get_click_stats", "stats") =>
        LET r == last.result
        IN  /\ r.total_clicks = SumCounts(r.clicks_by_date)
            /\ r.total_clicks = SumCounts(r.clicks_by_user_agent)
            /\ r.last_click = IF r.total_clicks = 0 THEN None
                              ELSE r.clicks[r.total_clicks].timestamp

(***************************************************************************)
(* C4.  A successful track_click on an active token that is directly       *)
(* followed by get_click_stats on that token, with no other operation in   *)
(* between, shows total_clicks one greater than before the click and       *)
(* last_click equal to the timestamp track_click returned.                 *)
(***************************************************************************)
C4_StatsAfterClick ==
    LastIs("get_click_stats", "stats") /\ prev.kind = "click" =>
        /\ last.result.total_clicks = prev.before + 1
        /\ last.result.last_click = prev.timestamp

\* ... reached after a click on a token that already had clicks
C4_Witness ==
    /\ LastIs("get_click_stats", "stats") /\ prev.kind = "click"
    /\ prev.before >= 1
    /\ last.result.first_click # last.result.last_click

(***************************************************************************)
(* C5.  track_click on a token string that has no Token Record returns     *)
(* {success: false, error: "Invalid token"} and leaves the whole store     *)
(* unchanged: no record or click list is created, no list is extended, no  *)
(* click_count changes.                                                    *)
(***************************************************************************)
C5_UnknownTokenRejected ==
    [][\A t \in Tokens \ DOMAIN _tokens :
          Calls("track_click", t) =>
              /\ ReturnsAtOnce("track_click", t, InvalidToken)
              /\ UNCHANGED store]_vars

\* ... reached while another token is known and has a click
C5_Witness ==
    /\ last = [op |-> "track_click", token |-> last.token, result |-> InvalidToken]
    /\ last.token \notin DOMAIN _tokens
    /\ \E t \in DOMAIN _clicks : Len(ClickList(t)) > 0

(***************************************************************************)
(* C6.  track_click on a known token whose expires_at lies in the past     *)
(* (now > expires_at) returns {success: false, error: "Token expired"},    *)
(* which differs from the unknown-token outcome; no statement of the call  *)
(* up to and including the rejection appends a click record or changes a   *)
(* click_count.                                                            *)
(***************************************************************************)
C6_ExpiredTokenRejected ==
    [][\A w \in Workers :
        /\ TokenExpired # InvalidToken
        /\ pc'[w] \in {"tc77", "tc80"} /\ pc'[w] # pc[w] => UNCHANGED store
        /\ (/\ pc[w] = "tc80" /\ pc'[w] # "tc80"
            /\ now > fromisoformat(dicts[frame[w].token_data].expires_at))
           => /\ pc'[w] = "idle"
              /\ last' = [op |-> "track_click", token |-> frame[w].token,
                          result |-> TokenExpired]
              /\ UNCHANGED store]_vars

\* ... reached on a token that got a click before it expired
C6_Witness ==
    /\ last.op = "track_click" /\ last.result = TokenExpired
    /\ last.token \in DOMAIN _tokens /\ last.token \in DOMAIN _clicks
    /\ Record(last.token).click_count = 1
    /\ Len(ClickList(last.token)) = 1

(***************************************************************************)
(* C7.  click_count never decreases: across any step that is not a step of *)
(* clear_all, the stored click_count of an existing token does not become  *)
(* smaller.                                                                *)
(***************************************************************************)
C7_CountMonotonic ==
    [][~ClearStep =>
         \A t \in DOMAIN _tokens \cap DOMAIN _tokens' :
             dicts'[_tokens'[t]].click_count >= dicts[_tokens[t]].click_count]_vars

(***************************************************************************)
(* C8.  The click list of a token is append-only: across any step other    *)
(* than a step of clear_all the token keeps its list, and the list before  *)
(* the step is a prefix of the list after it.                              *)
(***************************************************************************)
C8_AppendOnly ==
    [][~ClearStep =>
         \A t \in DOMAIN _clicks :
             /\ t \in DOMAIN _clicks'
             /\ IsPrefix(lists[_clicks[t]], lists'[_clicks'[t]])]_vars

\* ... reached when a list that had a record has got another one
C8_Witness ==
    \E t \in DOMAIN _clicks :
        /\ Len(ClickList(t)) >= 2
        /\ ClickList(t)[1] # ClickList(t)[2]

(***************************************************************************)
(* C9.  After clear_all has completed, and until generate_token creates    *)
(* the token again, every get_click_stats call on a token that existed     *)
(* before the reset returns None and every track_click call on it returns  *)
(* "Invalid token".                                                        *)
(***************************************************************************)
C9_AbsentAfterClear ==
    [][\A t \in wiped :
          /\ Calls("get_click_stats", t)
                => ReturnsAtOnce("get_click_stats", t, None)
          /\ Calls("track_click", t)
                => ReturnsAtOnce("track_click", t, InvalidToken)]_vars

\* ... reached for a token that had been clicked before the reset
C9_Witness ==
    /\ last = [op |-> "get_click_stats", token |-> last.token, result |-> None]
    /\ last.token \in wiped
    /\ nsucc[last.token] > 0

(***************************************************************************)
(* C10.  For a known token get_click_stats returns total_clicks equal to   *)
(* the number of click records of the token and unique_ips equal to the    *)
(* number of distinct ip_address values among them, in whatever order the  *)
(* clicks came.                                                            *)
(***************************************************************************)
C10_StatsCountRecords ==
    (/\ AllReturned /\ LastIs("get_click_stats", "stats")
     /\ last.token \in DOMAIN _tokens /\ last.token \in DOMAIN _clicks)
    => /\ last.result.total_clicks = Len(ClickList(last.token))
       /\ last.result.unique_ips = DistinctIPs(ClickList(last.token))

\* ... reached for clicks from 1.1.1.1, 1.1.1.1, 2.2.2.2
C10_Witness ==
    /\ AllReturned /\ LastIs("get_click_stats", "stats")
    /\ last.token \in DOMAIN _clicks
    /\ Len(ClickList(last.token)) = 3
    /\ [i \in 1..3 |-> ClickList(last.token)[i].ip_address]
          = <<"1.1.1.1", "1.1.1.1", "2.2.2.2">>
    /\ last.result.total_clicks = 3
    /\ last.result.unique_ips = 2

(***************************************************************************)
(* C11.  Every Token Record generate_token has created satisfies           *)
(* expires_at = created_at + TTL (90 days) exactly, whatever the clock     *)
(* does while generate_token runs.                                         *)
(***************************************************************************)
C11_ExpiresAtIsCreatedAtPlusTTL ==
    \A i \in DOMAIN dicts :
        fromisoformat(dicts[i].expires_at)
            = fromisoformat(dicts[i].created_at) + TOKEN_EXPIRY_DAYS * TicksPerDay

(***************************************************************************)
(* C12.  Immediately after generate_token has returned a token, the token  *)
(* is known with click_count 0 and an empty click list, and                *)
(* get_click_stats on it returns a stats value, not None, with             *)
(* total_clicks 0, unique_ips 0, empty clicks_by_date and                  *)
(* clicks_by_user_agent, and first_click and last_click None.              *)
(***************************************************************************)
C12_FreshTokenHasNoClicks ==
    /\ (AllReturned /\ last.op = "generate_token") =>
          /\ last.result.token \in DOMAIN _tokens
          /\ last.result.token \in DOMAIN _clicks
          /\ Record(last.result.token).click_count = 0
          /\ ClickList(last.result.token) = <<>>
    /\ (last.op = "get_click_stats" /\ prev.kind = "created") =>
          /\ last.result.kind = "stats"
          /\ last.result.total_clicks = 0
          /\ last.result.unique_ips = 0
          /\ last.result.clicks_by_date = EmptyDict
          /\ last.result.clicks_by_user_agent = EmptyDict
          /\ last.result.first_click = None
          /\ last.result.last_click = None

\* ... reached when get_click_stats has returned right after generate_token
C12_Witness ==
    /\ AllReturned /\ LastIs("get_click_stats", "stats") /\ prev.kind = "created"
    /\ last.token \in DOMAIN _tokens
    /\ Record(last.token).click_count = 0

(***************************************************************************)
(* C13.  Generating N tokens with no clear_all in between yields N         *)
(* distinct token strings: the store then holds N Token Records, and no    *)
(* step of generate_token replaces the record or the click list of a token *)
(* that was issued earlier.                                                *)
(***************************************************************************)
C13_TokensDistinct ==
    [][/\ Cardinality(DOMAIN _tokens') = Len(dicts')
       /\ \A t \in DOMAIN _tokens :
             /\ t \in DOMAIN _tokens' /\ _tokens'[t] = _tokens[t]
             /\ dicts'[_tokens'[t]].created_at = dicts[_tokens[t]].created_at
       /\ \A t \in DOMAIN _clicks :
             /\ t \in DOMAIN _clicks' /\ _clicks'[t] = _clicks[t]
             /\ IsPrefix(lists[_clicks[t]], lists'[_clicks'[t]])]_vars

\* ... reached with two tokens in the store, the first of which has a click
C13_Witness ==
    /\ AllReturned
    /\ Cardinality(DOMAIN _tokens) = 2 /\ Cardinality(DOMAIN _clicks) = 2
    /\ Len(dicts) = 2
    /\ \E t \in DOMAIN _clicks : _clicks[t] = 1 /\ Len(ClickList(t)) > 0

(***************************************************************************)
(* C15.  A Token Record is never purged by expiry: no step other than a    *)
(* step of clear_all removes a record or changes its metadata or the       *)
(* clicks recorded so far, and for a token whose expiry time has passed    *)
(* get_token_info and get_click_stats still return its metadata and every  *)
(* click recorded before expiry.                                           *)
(***************************************************************************)
Metadata(d) == [k \in DOMAIN d \ {"click_count"} |-> d[k]]

IsExpired(t) == now > fromisoformat(Record(t).expires_at)

ReadOfExpired ==
    (/\ AllReturned /\ last.op \in {"get_token_info", "get_click_stats"}
     /\ last.token \in DOMAIN _tokens /\ last.token \in DOMAIN _clicks
     /\ IsExpired(last.token))
    => /\ last.result.kind \in {"info", "stats"}
       /\ last.result.clicks = ClickList(last.token)
       /\ last.result.kind = "info" => last.result.info = Record(last.token)
       /\ last.result.kind = "stats" =>
             last.result.total_clicks = Len(ClickList(last.token))

C15_NotPurgedByExpiry ==
    [][/\ ~ClearStep =>
            \A t \in DOMAIN _tokens :
                /\ t \in DOMAIN _tokens'
                /\ Metadata(dicts'[_tokens'[t]]) = Metadata(dicts[_tokens[t]])
                /\ t \in DOMAIN _clicks =>
                      /\ t \in DOMAIN _clicks'
                      /\ IsPrefix(lists[_clicks[t]], lists'[_clicks'[t]])
       /\ ReadOfExpired']_vars

\* ... reached when an expired token with a click has been read
C15_Witness ==
    /\ AllReturned /\ LastIs("get_token_info", "info")
    /\ last.token \in DOMAIN _tokens /\ IsExpired(last.token)
    /\ Len(last.result.clicks) >= 1

(***************************************************************************)
(* C16.  The click list of every token is time-ordered by insertion: in    *)
(* every reachable state the timestamps of the stored click records are    *)
(* non-decreasing along the list, also when track_click calls on the same  *)
(* token interleave (the clock of the model is monotonic).                 *)
(***************************************************************************)
C16_ClicksTimeOrdered ==
    \A i \in DOMAIN lists :
        \A j \in 1..(Len(lists[i]) - 1) :
            fromisoformat(lists[i][j].timestamp)
                <= fromisoformat(lists[i][j + 1].timestamp)

(***************************************************************************)
(* C17.  ACTIVE, then EXPIRED, with no way back: the expiry check of       *)
(* track_click on a known token passes exactly when now <= expires_at      *)
(* (now = expires_at is still accepted) and a call that passes succeeds;   *)
(* expires_at never changes after creation; and once a track_click on a    *)
(* token has returned "Token expired", no later track_click on that token  *)
(* succeeds.                                                               *)
(***************************************************************************)
PastCheck(t) ==
    \E w \in Workers :
        /\ pc[w] \in {"tc86", "tc93", "tc93a", "tc94", "tc94s", "tc98"}
        /\ frame[w].token = t

\* the token is expired and no call on it is past the expiry check
Rejecting(t) == t \in DOMAIN _tokens /\ IsExpired(t) /\ ~PastCheck(t)

C17_ActiveThenExpired ==
    [][\A t \in DOMAIN _tokens :
          /\ t \in DOMAIN _tokens' =>
                dicts'[_tokens'[t]].expires_at = dicts[_tokens[t]].expires_at
          /\ \A w \in Workers :
                /\ (pc[w] = "tc80" /\ pc'[w] # "tc80" /\ frame[w].token = t) =>
                      IF now <= fromisoformat(Record(t).expires_at)
                      THEN pc'[w] = "tc86"
                      ELSE /\ pc'[w] = "idle"
                           /\ last' = [op |-> "track_click", token |-> t,
                                       result |-> TokenExpired]
                /\ (PastCheck(t) /\ pc[w] # "idle" /\ pc'[w] = "idle"
                    /\ frame[w].token = t) => last'.result.success
          /\ (/\ AllReturned /\ last.op = "track_click" /\ last.token = t
              /\ last.result = TokenExpired) => Rejecting(t)
          /\ Rejecting(t) => Rejecting(t)' /\ nsucc'[t] = nsucc[t]]_vars

\* ... reached when a token that took a click at now = expires_at rejects one
C17_Witness ==
    /\ AllReturned /\ last.op = "track_click" /\ last.result = TokenExpired
    /\ last.token \in DOMAIN _tokens /\ last.token \in DOMAIN _clicks
    /\ \E i \in DOMAIN ClickList(last.token) :
          ClickList(last.token)[i].timestamp = Record(last.token).expires_at

(***************************************************************************)
(* C18.  Every value track_click returns is one of the three documented    *)
(* outcomes (success with target_url, timestamp and click_count, "Invalid  *)
(* token", "Token expired"); an internal fault, such as the record or the  *)
(* click list removed by an interleaving clear_all, is never returned as a *)
(* result value: it leaves the method as an exception.                     *)
(***************************************************************************)
C18_OnlyDocumentedOutcomes ==
    last.op = "track_click" =>
        \/ last.result.kind = "raise"
        \/ last.result \in {InvalidToken, TokenExpired}
        \/ /\ last.result.kind = "outcome" /\ last.result.success
           /\ {"target_url", "timestamp", "click_count"} \subseteq DOMAIN last.result

(***************************************************************************)
(* C19.  Duplicate clicks are never rejected: a track_click on an active   *)
(* token whose click_hash, the fingerprint of (token, ip_address), equals  *)
(* that of a click recorded earlier returns success, has appended a new    *)
(* click record and has incremented click_count by one.                    *)
(***************************************************************************)
IsDuplicate(w) ==
    /\ frame[w].op = "track_click" /\ frame[w].token \in DOMAIN _clicks
    /\ \E i \in 1..frame[w].before :
          ClickList(frame[w].token)[i].click_hash
              = _generate_click_hash(frame[w].token, frame[w].ip_address)

C19_DuplicatesRecorded ==
    [][\A w \in Workers :
          (pc[w] # "idle" /\ pc'[w] = "idle" /\ IsDuplicate(w)) =>
              /\ last'.result.kind = "outcome" /\ last'.result.success
              /\ last'.result.click_count = frame[w].before + 1
              /\ Record(frame[w].token).click_count = frame[w].before + 1
              /\ Len(ClickList(frame[w].token)) = frame[w].before + 1
              /\ ClickList(frame[w].token)[frame[w].before + 1]
                    = frame[w].click_data]_vars

\* ... reached when the second click from one address has been counted
C19_Witness ==
    /\ AllReturned /\ last.op = "track_click" /\ last.result.success
    /\ last.result.click_count = 2
    /\ last.token \in DOMAIN _clicks /\ Len(ClickList(last.token)) = 2
    /\ ClickList(last.token)[1].click_hash = ClickList(last.token)[2].click_hash

(***************************************************************************)
(* C14.  A failure of the logging collaborator never fails the core        *)
(* operation that triggered it: when tracker.track_click has returned      *)
(* success the click stays recorded and the response redirects the visitor *)
(* to target_url, whatever log_click does; when tracker.generate_token has *)
(* returned a token the token stays stored and the response returns it,    *)
(* whatever log_token_creation does.                                       *)
(***************************************************************************)
C14_LoggingNeverFailsCore ==
    /\ (resp.route = "track" /\ resp.core.success) =>
          /\ \E i \in DOMAIN ClickList(resp.token) :
                ClickList(resp.token)[i].timestamp = resp.core.timestamp
          /\ resp.status = 302
          /\ resp.location = resp.core.target_url
    /\ (resp.route = "generate" /\ resp.core.kind = "token") =>
          /\ resp.core.token \in DOMAIN _tokens
          /\ resp.status = 201
          /\ resp.token = resp.core.token

(***************************************************************************)
(* C20.  Logging follows the core mutation, and only a successful one:     *)
(* log_click is called exactly once per successful track_click, after the  *)
(* click record is stored, with that click's token, ip_address,            *)
(* user_agent, returned timestamp and target_url, and never for an invalid *)
(* or expired token; log_token_creation is called exactly once per         *)
(* generate_token, after the Token Record is stored.                       *)
(***************************************************************************)
NoRequests == AllReturned /\ \A w \in Workers : http[w].at = "none"

CallsOf(fn, t) ==
    Cardinality({i \in DOMAIN logged : logged[i].fn = fn /\ logged[i].token = t})

\* every call so far has its stored record, and every record its one call
LoggedOncePerMutation ==
    NoRequests =>
        \A t \in Tokens :
            /\ CallsOf("log_click", t) = nsucc[t]
            /\ CallsOf("log_token_creation", t) = IF t \in DOMAIN _tokens THEN 1 ELSE 0

\* the call made in this step carries what the core has just stored
LoggedAfterMutation ==
    Len(logged') = Len(logged) + 1 =>
        LET c == logged'[Len(logged')]
        IN  /\ c.token \in DOMAIN _tokens /\ c.token \in DOMAIN _clicks
            /\ c.target_url = Record(c.token).target_url
            /\ c.fn = "log_click" =>
                  /\ last.op = "track_click" /\ last.token = c.token
                  /\ last.result.success
                  /\ c.timestamp = last.result.timestamp
                  /\ Len(ClickList(c.token)) > 0
                  /\ LET click == ClickList(c.token)[Len(ClickList(c.token))]
                     IN  /\ click.timestamp = c.timestamp
                         /\ click.ip_address = c.ip_address
                         /\ click.user_agent = c.user_agent
            /\ c.fn = "log_token_creation" =>
                  /\ last.op = "generate_token" /\ last.result.token = c.token
                  /\ Record(c.token).click_count = 0

C20_LoggedOnceAfterSuccess ==
    [][/\ Len(logged') \in {Len(logged), Len(logged) + 1}
       /\ LoggedAfterMutation
       /\ LoggedOncePerMutation']_vars

\* ... reached when one click has been stored, logged and redirected
C20_Witness ==
    /\ NoRequests /\ resp.route = "track" /\ resp.status = 302
    /\ nsucc[resp.token] = 1
    /\ Len(logged) = 2
    /\ logged[1].fn = "log_token_creation" /\ logged[2].fn = "log_click"
    /\ logged[2].timestamp = ClickList(resp.token)[1].timestamp

(***************************************************************************)
(* C21.  The HTTP layer answers a stats request from the tracker's         *)
(* get_click_stats: after any sequence of token creations and clicks the   *)
(* answer carries stats exactly when the tracker knows the token, a token  *)
(* with zero clicks included, with the tracker's total_clicks and          *)
(* unique_ips, and it is "not found" exactly when the tracker does not     *)
(* know the token.                                                         *)
(***************************************************************************)
C21_StatsRouteUsesTracker ==
    [][(resp' # resp /\ resp'.route = "stats") =>
          IF resp'.token \in DOMAIN _tokens
          THEN /\ resp'.status = 200
               /\ resp'.total_clicks = total_clicks(ClickList(resp'.token))
               /\ resp'.unique_ips = unique_ips(ClickList(resp'.token))
          ELSE resp'.status = 404]_vars

(***************************************************************************)
(* C22.  Whenever no operation is in flight, the tokens that have a Token  *)
(* Record are the tokens that have a click list, after any interleaving of *)
(* generate_token, track_click and clear_all: a known token always has a   *)
(* click list to append to.                                                *)
(***************************************************************************)
C22_RecordsAndListsAgree ==
    AllReturned => DOMAIN _tokens = DOMAIN _clicks
====
